---- MODULE Spec2Model ----
(***************************************************************************)
(* WACC Studio front end: the WaccForm component (src/src/WaccForm.js) and *)
(* the App component that hosts it (src/src/App.js).                       *)
(*                                                                         *)
(* State: the React state of WaccForm (form, result, error, loading), the  *)
(* React state of App (capitalBreak) and the axios requests in flight.     *)
(* Purely presentational state (fadeIn, copiedMsg, formulaOpen) is left    *)
(* out: no modelled value reads it.                                        *)
(*                                                                         *)
(* JavaScript values are modelled as records:                              *)
(*   a number  [k |-> "num", n, d, e]  standing for (n / d) * 10^e,        *)
(*   NaN       [k |-> "NaN", ...]      (typeof NaN is "number"),           *)
(*   undefined [k |-> "undefined", ...].                                   *)
(* Numbers are exact decimals/rationals in a unique normal form, so that   *)
(* equality of values is equality of records.  Text typed in an input is a *)
(* sequence of one-character strings; "" is the empty sequence.            *)
(***************************************************************************)
EXTENDS Integers, Sequences, FiniteSets, TLC

VARIABLES form, result, error, loading, capitalBreak, inflight,
          resultLatest, breakLatest, cleared

vars == <<form, result, error, loading, capitalBreak, inflight,
          resultLatest, breakLatest, cleared>>

----------------------------------------------------------------------------
(* JavaScript values *)

RECURSIVE GCD(_, _)
GCD(a, b) == IF b = 0 THEN a ELSE GCD(b, a % b)

Abs(i) == IF i < 0 THEN -i ELSE i

RECURSIVE Pow10(_)
Pow10(k) == IF k = 0 THEN 1 ELSE 10 * Pow10(k - 1)

Undef == [k |-> "undefined", n |-> 0, d |-> 1, e |-> 0]
NaN == [k |-> "NaN", n |-> 0, d |-> 1, e |-> 0]

(* the number (n / d) * 10^e, d > 0, in normal form: n/d in lowest terms,  *)
(* d coprime to 10, n not a multiple of 10, and 0 written 0/1 * 10^0       *)
RECURSIVE Norm(_, _, _)
Norm(n, d, e) ==
  IF n = 0 THEN [k |-> "num", n |-> 0, d |-> 1, e |-> 0]
  ELSE IF d % 2 = 0 THEN Norm(n * 5, d \div 2, e - 1)
  ELSE IF d % 5 = 0 THEN Norm(n * 2, d \div 5, e - 1)
  ELSE IF Abs(n) % 10 = 0 THEN Norm(n \div 10, d, e + 1)
  ELSE LET g == GCD(Abs(n), d)
       IN  IF g = 1 THEN [k |-> "num", n |-> n, d |-> d, e |-> e]
           ELSE Norm(n \div g, d \div g, e)

Int2Num(i) == Norm(i, 1, 0)

IsNum(a) == a.k = "num"

(* typeof a === "number": true of NaN as well *)
TypeofNumber(a) == a.k \in {"num", "NaN"}

(* a === undefined || a === null, the test of ?? *)
IsNullish(a) == a.k = "undefined"

Min(i, j) == IF i < j THEN i ELSE j

(* a + b; undefined coerces to NaN *)
Add(a, b) ==
  IF ~(IsNum(a) /\ IsNum(b)) THEN NaN
  ELSE LET m == Min(a.e, b.e)
       IN  Norm(a.n * Pow10(a.e - m) * b.d + b.n * Pow10(b.e - m) * a.d,
                a.d * b.d, m)

Neg(a) == IF IsNum(a) THEN [a EXCEPT !.n = -a.n] ELSE NaN

Sub(a, b) == Add(a, Neg(b))

(* a * b *)
Mul(a, b) ==
  IF ~(IsNum(a) /\ IsNum(b)) THEN NaN
  ELSE LET g1 == GCD(Abs(a.n), b.d)
           g2 == GCD(Abs(b.n), a.d)
       IN  IF a.n = 0 \/ b.n = 0 THEN Int2Num(0)
           ELSE Norm((a.n \div g1) * (b.n \div g2),
                     (a.d \div g2) * (b.d \div g1), a.e + b.e)

(* a / b, used by the code only with b > 0 or b a non-zero literal *)
Div(a, b) ==
  IF ~(IsNum(a) /\ IsNum(b)) \/ b.n = 0 THEN NaN
  ELSE LET s == IF b.n < 0 THEN -1 ELSE 1
       IN  Mul(a, Norm(s * b.d, Abs(b.n), -b.e))

(* a > 0; false of NaN and undefined *)
GtZero(a) == IsNum(a) /\ a.n > 0

----------------------------------------------------------------------------
(* Text of an input field and Number(text) *)

Digits == <<"0", "1", "2", "3", "4", "5", "6", "7", "8", "9">>

IsDigit(c) == \E i \in 1..10 : Digits[i] = c

DigitVal(c) == (CHOOSE i \in 1..10 : Digits[i] = c) - 1

RECURSIVE DigitsValue(_)
DigitsValue(s) ==
  IF s = <<>> THEN 0
  ELSE 10 * DigitsValue(SubSeq(s, 1, Len(s) - 1)) + DigitVal(s[Len(s)])

(* Number(s) for text over digits, "." and letters: "" is 0, a decimal     *)
(* literal (digits, at most one ".", at least one digit) is its value,     *)
(* anything else is NaN                                                    *)
Number(s) ==
  LET dots == {i \in 1..Len(s) : s[i] = "."}
      digs == SelectSeq(s, IsDigit)
  IN  IF s = <<>> THEN Int2Num(0)
      ELSE IF \E i \in 1..Len(s) : ~IsDigit(s[i]) /\ s[i] # "." THEN NaN
      ELSE IF Cardinality(dots) > 1 \/ digs = <<>> THEN NaN
      ELSE IF dots = {} THEN Norm(DigitsValue(digs), 1, 0)
      ELSE LET p == CHOOSE i \in dots : TRUE
           IN  Norm(DigitsValue(digs), 1, -(Len(s) - p))

Empty == <<>>

----------------------------------------------------------------------------
(* Inputs: the text a user types into each field *)

FieldNames == {"equityValue", "debtValue", "re", "rf", "beta",
               "marketRiskPremium", "rd", "taxRate"}

FieldInputs ==
  [equityValue       |-> {Empty, <<"2", "0", "0">>},
   debtValue         |-> {Empty, <<"5", "0">>},
   re                |-> {Empty, <<"1", "2">>, <<"a", "b">>},
   rf                |-> {Empty, <<"4">>},
   beta              |-> {Empty, <<"1", ".", "2">>},
   marketRiskPremium |-> {Empty, <<"6">>},
   rd                |-> {Empty, <<"5">>},
   taxRate           |-> {Empty, <<"2", "5">>}]

----------------------------------------------------------------------------
(* WaccForm and App state *)

Null == [null |-> TRUE]

EmptyForm == [name \in FieldNames |-> Empty]

croreToRupees == 10000000

(* toDecimal without the test for "": an empty field becomes 0 *)
toDecimal_EmptyAsZero(val) == Div(Number(val), Int2Num(100))

toDecimal(val) == IF val = Empty THEN Undef ELSE Div(Number(val), Int2Num(100))

(* Number(text || 0) *)
NumberOrZero(text) == IF text = Empty THEN Int2Num(0) ELSE Number(text)

(* submit without the else: the CAPM inputs are sent whenever the triple is *)
(* complete, next to an explicit re                                        *)
BuildPayload_CapmAlways(f) ==
  LET capm == f.rf # Empty /\ f.beta # Empty /\ f.marketRiskPremium # Empty
  IN  [equityValue |-> Mul(NumberOrZero(f.equityValue), Int2Num(croreToRupees)),
       debtValue   |-> Mul(NumberOrZero(f.debtValue), Int2Num(croreToRupees)),
       rd          |-> toDecimal(f.rd),
       taxRate     |-> toDecimal(f.taxRate),
       re          |-> IF f.re # Empty THEN toDecimal(f.re) ELSE Undef,
       rf          |-> IF capm THEN toDecimal(f.rf) ELSE Undef,
       beta        |-> IF capm THEN Number(f.beta) ELSE Undef,
       marketRiskPremium |->
                       IF capm THEN toDecimal(f.marketRiskPremium) ELSE Undef]

(* the payload object submit builds; a key that is not set, or is set to   *)
(* undefined, holds Undef (JSON serialisation drops both)                  *)
BuildPayload(f) ==
  LET capm == f.re = Empty /\ f.rf # Empty /\ f.beta # Empty
              /\ f.marketRiskPremium # Empty
  IN  [equityValue |-> Mul(NumberOrZero(f.equityValue), Int2Num(croreToRupees)),
       debtValue   |-> Mul(NumberOrZero(f.debtValue), Int2Num(croreToRupees)),
       rd          |-> toDecimal(f.rd),
       taxRate     |-> toDecimal(f.taxRate),
       re          |-> IF f.re # Empty THEN toDecimal(f.re) ELSE Undef,
       rf          |-> IF capm THEN toDecimal(f.rf) ELSE Undef,
       beta        |-> IF capm THEN Number(f.beta) ELSE Undef,
       marketRiskPremium |->
                       IF capm THEN toDecimal(f.marketRiskPremium) ELSE Undef]

(* the message without its last fallback *)
ErrorMessage_NoFallback(err) ==
  IF err.respError # "" THEN err.respError ELSE err.message

(* err.response?.data?.error || err.message || "Request failed" *)
ErrorMessage(err) ==
  IF err.respError # "" THEN err.respError
  ELSE IF err.message # "" THEN err.message
  ELSE "Request failed"

(* App's onResult callback: the new value of capitalBreak *)
OnResult(res) ==
  IF res = Null THEN Null
  ELSE [weightE |-> res.weightE, weightD |-> res.weightD]

----------------------------------------------------------------------------
(* The remote API, POST /api/wacc.  It is not part of this repository; its *)
(* answers are modelled from section 4.2 of the specification.             *)

PayloadKeys == {"equityValue", "debtValue", "rd", "taxRate", "re", "rf",
                "beta", "marketRiskPremium"}

(* a NaN serialises to null: invalid input *)
Invalid(p) == \E key \in PayloadKeys : p[key].k = "NaN"

CapmRe(p) == Add(p.rf, Mul(p.beta, p.marketRiskPremium))

ResolvedRe(p) ==
  IF ~IsNullish(p.re) THEN p.re
  ELSE IF ~IsNullish(p.rf) /\ ~IsNullish(p.beta)
          /\ ~IsNullish(p.marketRiskPremium) THEN CapmRe(p)
  ELSE Undef

Computable(p) ==
  /\ ~Invalid(p)
  /\ ~IsNullish(ResolvedRe(p))
  /\ ~IsNullish(p.rd) /\ ~IsNullish(p.taxRate)

(* the result record of compute; with V = 0 both weights are 0 *)
Compute(p) ==
  LET V  == Add(p.equityValue, p.debtValue)
      wE == IF GtZero(V) THEN Div(p.equityValue, V) ELSE Int2Num(0)
      wD == IF GtZero(V) THEN Div(p.debtValue, V) ELSE Int2Num(0)
      Re == ResolvedRe(p)
  IN  [wacc    |-> Add(Mul(wE, Re),
                       Mul(Mul(wD, p.rd), Sub(Int2Num(1), p.taxRate))),
       re      |-> Re,
       rd      |-> p.rd,
       taxRate |-> p.taxRate,
       weightE |-> wE,
       weightD |-> wD]

(* res.data of a 2xx answer *)
ApiResults(p) == IF Computable(p) THEN {Compute(p)} ELSE {}

(* the structured errors of a non-2xx answer; with V = 0 the service may   *)
(* fail with "undefined weights" instead of reporting zero weights         *)
ServiceErrors(p) ==
  (IF Invalid(p) THEN {"invalid input"} ELSE {})
  \cup (IF ~Invalid(p) /\ IsNullish(ResolvedRe(p))
        THEN {"missing cost of equity inputs"} ELSE {})
  \cup (IF ~Invalid(p) /\ (IsNullish(p.rd) \/ IsNullish(p.taxRate))
        THEN {"missing cost of debt/tax inputs"} ELSE {})
  \cup (IF ~Invalid(p) /\ ~GtZero(Add(p.equityValue, p.debtValue))
        THEN {"undefined weights"} ELSE {})

(* rejections raised by the transport itself: the 7000 ms timeout, an      *)
(* unreachable service, and a rejection that carries no message            *)
TransportErrors ==
  {[respError |-> "", message |-> "timeout of 7000ms exceeded"],
   [respError |-> "", message |-> "Network Error"],
   [respError |-> "", message |-> ""]}

ApiErrors(p) ==
  TransportErrors
  \cup {[respError |-> m, message |-> "Request failed with status code 400"] :
          m \in ServiceErrors(p)}

----------------------------------------------------------------------------
(* Values of the formula panel, recomputed on every render *)

croreToNumber(cr) == Mul(NumberOrZero(cr), Int2Num(10000000))

E_rupees == croreToNumber(form.equityValue)
D_rupees == croreToNumber(form.debtValue)
V_rupees == Add(E_rupees, D_rupees)

(* result?.key ?? (text ? Number(text) / 100 : undefined) *)
RateDec(key, text) ==
  IF result # Null /\ ~IsNullish(result[key]) THEN result[key]
  ELSE IF text # Empty THEN Div(Number(text), Int2Num(100))
  ELSE Undef

Re_dec == RateDec("re", form.re)
Rd_dec == RateDec("rd", form.rd)
Tc_dec == RateDec("taxRate", form.taxRate)

weightE_input == IF GtZero(V_rupees) THEN Div(E_rupees, V_rupees) ELSE Undef
weightD_input == IF GtZero(V_rupees) THEN Div(D_rupees, V_rupees) ELSE Undef

(* typeof result?.key === "number" ? result.key                            *)
(*                                 : (input ?? result?.key ?? 0)           *)
FinalWeight(key, input) ==
  IF result # Null /\ TypeofNumber(result[key]) THEN result[key]
  ELSE IF ~IsNullish(input) THEN input
  ELSE IF result # Null /\ ~IsNullish(result[key]) THEN result[key]
  ELSE Int2Num(0)

weightE == FinalWeight("weightE", weightE_input)
weightD == FinalWeight("weightD", weightD_input)

(* the debt term without the tax shield's complement: Rd * Tc *)
waccComputed_TaxNotComplemented ==
  Add(IF TypeofNumber(weightE) /\ TypeofNumber(Re_dec)
        THEN Mul(weightE, Re_dec) ELSE Int2Num(0),
      IF TypeofNumber(weightD) /\ TypeofNumber(Rd_dec) /\ TypeofNumber(Tc_dec)
        THEN Mul(Mul(weightD, Rd_dec), Tc_dec)
        ELSE Int2Num(0))

waccComputed ==
  Add(IF TypeofNumber(weightE) /\ TypeofNumber(Re_dec)
        THEN Mul(weightE, Re_dec) ELSE Int2Num(0),
      IF TypeofNumber(weightD) /\ TypeofNumber(Rd_dec) /\ TypeofNumber(Tc_dec)
        THEN Mul(Mul(weightD, Rd_dec), Sub(Int2Num(1), Tc_dec))
        ELSE Int2Num(0))

----------------------------------------------------------------------------
(* Operations *)

(* History variables, read by no operation:                                *)
(*   latest (of a request), resultLatest, breakLatest: whether the request,*)
(*     the held result, the held capitalBreak belong to the most recent    *)
(*     submission;                                                         *)
(*   cleared: Reset was pressed and no submit has started since.           *)

Init ==
  /\ form = EmptyForm
  /\ result = Null
  /\ error = ""
  /\ loading = FALSE
  /\ capitalBreak = Null
  /\ inflight = {}
  /\ resultLatest = FALSE
  /\ breakLatest = FALSE
  /\ cleared = FALSE

(* typing into one of the fields in names *)
HandleChangeIn(names) ==
  \E name \in names : \E v \in FieldInputs[name] :
    /\ v # form[name]
    /\ form' = [form EXCEPT ![name] = v]
    /\ UNCHANGED <<result, error, loading, capitalBreak, inflight,
                   resultLatest, breakLatest, cleared>>

HandleChange == HandleChangeIn(FieldNames)

(* the Reset button *)
Clear ==
  /\ form' = EmptyForm
  /\ result' = Null
  /\ error' = ""
  /\ capitalBreak' = OnResult(Null)
  /\ resultLatest' = FALSE
  /\ breakLatest' = FALSE
  /\ cleared' = TRUE
  /\ UNCHANGED <<loading, inflight>>

(* a submit button that is never disabled *)
CanSubmit_NotDisabled == TRUE

(* the submit button is disabled while loading *)
CanSubmit == ~loading

(* submit, up to the await of axios.post *)
Submit ==
  /\ CanSubmit
  /\ error' = ""
  /\ result' = Null
  /\ loading' = TRUE
  /\ inflight' = {[r EXCEPT !.latest = FALSE] : r \in inflight}
                 \cup {[payload |-> BuildPayload(form), latest |-> TRUE]}
  /\ resultLatest' = FALSE
  /\ breakLatest' = FALSE
  /\ cleared' = FALSE
  /\ UNCHANGED <<form, capitalBreak>>

(* submit after the await: the request resolved *)
RespondOk ==
  \E r \in inflight : \E data \in ApiResults(r.payload) :
    /\ result' = data
    /\ capitalBreak' = OnResult(data)
    /\ loading' = FALSE
    /\ inflight' = inflight \ {r}
    /\ resultLatest' = r.latest
    /\ breakLatest' = r.latest
    /\ UNCHANGED <<form, error, cleared>>

(* submit after the await: the request was rejected *)
RespondError ==
  \E r \in inflight : \E err \in ApiErrors(r.payload) :
    /\ error' = ErrorMessage(err)
    /\ capitalBreak' = OnResult(Null)
    /\ loading' = FALSE
    /\ inflight' = inflight \ {r}
    /\ breakLatest' = FALSE
    /\ UNCHANGED <<form, result, resultLatest, cleared>>

Next == HandleChange \/ Clear \/ Submit \/ RespondOk \/ RespondError

Spec == Init /\ [][Next]_vars

(* The same machine with typing kept to the fields a result needs, under   *)
(* the fairness the transport gives: a request that is still pending is    *)
(* rejected by the 7000 ms timeout.                                        *)
LiveFieldNames == {"equityValue", "re", "rd", "taxRate"}

LiveHandleChange == HandleChangeIn(LiveFieldNames)

LiveNext == LiveHandleChange \/ Clear \/ Submit \/ RespondOk \/ RespondError

LiveSpec == Init /\ [][LiveNext]_vars /\ WF_vars(RespondError)

----------------------------------------------------------------------------
(* Properties *)

Text200 == <<"2", "0", "0">>
Text50 == <<"5", "0">>
Text12 == <<"1", "2">>
Text5 == <<"5">>
Text25 == <<"2", "5">>

(* decimal literals: Dec(1035, 4) is 0.1035 *)
Dec(i, places) == Norm(i, 1, -places)

PctFull(f) == f.rf # Empty /\ f.beta # Empty /\ f.marketRiskPremium # Empty

NoExplicitReNoCapm == form.re = Empty /\ ~PctFull(form)

(* C2: with capital present and no API result held, when Re is neither     *)
(* given nor derivable from a complete CAPM triple, or Rd or Tc is         *)
(* missing, no WACC value is computed (the missing rate is not taken as 0) *)
C2_MissingInputsNoWacc ==
  (/\ result = Null
   /\ GtZero(V_rupees)
   /\ (NoExplicitReNoCapm \/ form.rd = Empty \/ form.taxRate = Empty))
  => ~TypeofNumber(waccComputed)

IsNaN(a) == a.k = "NaN"

(* C3: no NaN in a request payload nor in the values resolved for the      *)
(* display (Re, Rd, Tc, the weights, the computed WACC)                    *)
C3_NoNaN ==
  /\ \A r \in inflight : \A key \in PayloadKeys : ~IsNaN(r.payload[key])
  /\ ~IsNaN(Re_dec) /\ ~IsNaN(Rd_dec) /\ ~IsNaN(Tc_dec)
  /\ ~IsNaN(weightE) /\ ~IsNaN(weightD)
  /\ ~IsNaN(waccComputed)

(* C4: a submit with a non-empty re and a complete CAPM triple sends re    *)
(* (its value / 100) and none of rf, beta, marketRiskPremium               *)
C4_ExplicitReWins ==
  [][(Submit /\ form.re # Empty /\ PctFull(form))
     => \A r \in inflight' : r.latest
          => /\ r.payload.re = Div(Number(form.re), Int2Num(100))
             /\ IsNullish(r.payload.rf)
             /\ IsNullish(r.payload.beta)
             /\ IsNullish(r.payload.marketRiskPremium)]_vars

(* a request in flight for a form that holds a numeric re and the triple *)
C4_Witness ==
  /\ form.re = Text12 /\ PctFull(form)
  /\ \E r \in inflight :
       /\ r.latest
       /\ r.payload = BuildPayload(form)
       /\ r.payload.re = Dec(12, 2)

(* C5: for E, D >= 0 with E + D > 0 shown in the form, the reported        *)
(* weights sum to 1                                                        *)
C5_WeightsSumToOne ==
  (IsNum(E_rupees) /\ IsNum(D_rupees) /\ GtZero(V_rupees))
  => Add(weightE, weightD) = Int2Num(1)

(* C6: with E = D = 0 shown in the form both reported weights are 0 and    *)
(* neither quotient by V is formed                                         *)
C6_ZeroWeightsAtZeroCapital ==
  (E_rupees = Int2Num(0) /\ D_rupees = Int2Num(0))
  => /\ weightE = Int2Num(0) /\ weightD = Int2Num(0)
     /\ weightE_input = Undef /\ weightD_input = Undef

PctFields == {"re", "rf", "marketRiskPremium", "rd", "taxRate"}

(* C7 as claimed: in the payload of every submit each non-empty percentage *)
(* field is its value / 100, each empty one is absent, and equityValue and *)
(* debtValue are their value * 10,000,000, 0 when empty                    *)
C7_PayloadMapping ==
  [][Submit
     => \A r \in inflight' : r.latest
          => /\ \A key \in PctFields :
                  r.payload[key] = IF form[key] = Empty THEN Undef
                                   ELSE Div(Number(form[key]), Int2Num(100))
             /\ r.payload.equityValue
                  = IF form.equityValue = Empty THEN Int2Num(0)
                    ELSE Mul(Number(form.equityValue), Int2Num(10000000))
             /\ r.payload.debtValue
                  = IF form.debtValue = Empty THEN Int2Num(0)
                    ELSE Mul(Number(form.debtValue), Int2Num(10000000))]_vars

(* C7 amended: re, rd and taxRate are Number(text) / 100 when non-empty    *)
(* and absent when empty; rf and marketRiskPremium are Number(text) / 100  *)
(* only when re is empty and rf, beta, marketRiskPremium are all non-empty;*)
(* otherwise they are absent; equityValue and debtValue as claimed         *)
C7_PayloadMappingAmended ==
  [][Submit
     => \A r \in inflight' : r.latest
          => /\ \A key \in {"re", "rd", "taxRate"} :
                  r.payload[key] = IF form[key] = Empty THEN Undef
                                   ELSE Div(Number(form[key]), Int2Num(100))
             /\ \A key \in {"rf", "marketRiskPremium"} :
                  r.payload[key] = IF form.re = Empty /\ PctFull(form)
                                   THEN Div(Number(form[key]), Int2Num(100))
                                   ELSE Undef
             /\ r.payload.equityValue
                  = IF form.equityValue = Empty THEN Int2Num(0)
                    ELSE Mul(Number(form.equityValue), Int2Num(10000000))
             /\ r.payload.debtValue
                  = IF form.debtValue = Empty THEN Int2Num(0)
                    ELSE Mul(Number(form.debtValue), Int2Num(10000000))]_vars

(* a request in flight whose payload holds a rate / 100, an absent rate    *)
(* and a scaled amount, for a form with rf typed but no complete triple    *)
C7_Witness ==
  /\ form.rf # Empty /\ form.beta = Empty /\ form.taxRate = Empty
  /\ \E r \in inflight :
       /\ r.latest
       /\ r.payload = BuildPayload(form)
       /\ r.payload.rd = Dec(5, 2)
       /\ r.payload.taxRate = Undef
       /\ r.payload.rf = Undef
       /\ r.payload.equityValue = Norm(2, 1, 9)

(* C8: once no request is in flight, a held result and a held capitalBreak *)
(* are the response to the most recent submission                          *)
C8_LatestSupersedes ==
  inflight = {}
  => /\ (result # Null => resultLatest)
     /\ (capitalBreak # Null => breakLatest)

(* a result and its split on display, with nothing in flight *)
C8_Witness ==
  /\ inflight = {} /\ ~loading
  /\ result # Null /\ resultLatest
  /\ capitalBreak # Null /\ breakLatest

Completed == ~loading /\ ((result # Null) # (error # ""))

(* C9: result and error are never set together, and every submit leads to  *)
(* a state where loading is false and exactly one of them is set           *)
C9_SubmitCompletes ==
  /\ [](~(result # Null /\ error # ""))
  /\ (loading ~> Completed)

(* a submit that completed with the fallback message *)
C9_Witness ==
  /\ ~loading /\ inflight = {}
  /\ result = Null /\ error = "Request failed"

(* C10: from Reset until the next submit starts, result and capitalBreak   *)
(* stay null                                                               *)
C10_ResetStaysClear ==
  cleared => (result = Null /\ capitalBreak = Null)

(* C11: capitalBreak is non-null exactly when result is non-null, and then *)
(* it holds the weights of that result                                     *)
C11_BreakMatchesResult ==
  /\ (capitalBreak # Null) <=> (result # Null)
  /\ (capitalBreak # Null /\ result # Null)
     => /\ capitalBreak.weightE = result.weightE
        /\ capitalBreak.weightD = result.weightD

====
